---- MODULE Spec2Model ----
(***************************************************************************)
(* consul-awx: the Consul catalog -> Ansible inventory export of           *)
(* consul_awx.py, as a state machine of one run of main().                 *)
(*                                                                         *)
(* Python strings that the program inspects character by character (group  *)
(* names, metadata keys and values, service names, tags) are sequences of  *)
(* one-character strings, so that sanitize, strip, lower, isdigit and int  *)
(* are computed and not assumed.  Host identifiers and addresses are never *)
(* inspected by the program and stay atomic strings.                       *)
(***************************************************************************)
EXTENDS Integers, Sequences, FiniteSets, TLC

\* ------------------------------------------------------------------------
\* Characters, in code point order (Python compares strings by code point).
\* "²" (U+00B2) is a character for which str.isdigit() is true and that
\* int() refuses.
CharOrder ==
    << " ", "-",
       "0", "1", "2", "3", "4", "5", "6", "7", "8", "9",
       "A", "B", "C", "D", "E", "F", "G", "H", "I", "J", "K", "L", "M",
       "N", "O", "P", "Q", "R", "S", "T", "U", "V", "W", "X", "Y", "Z",
       "_",
       "a", "b", "c", "d", "e", "f", "g", "h", "i", "j", "k", "l", "m",
       "n", "o", "p", "q", "r", "s", "t", "u", "v", "w", "x", "y", "z",
       "²" >>

Ord(c) == CHOOSE n \in 1..Len(CharOrder) : CharOrder[n] = c

DecimalChars == {"0", "1", "2", "3", "4", "5", "6", "7", "8", "9"}
UpperChars == {CharOrder[n] : n \in 13..38}
LowerChars == {CharOrder[n] : n \in 40..65}
\* str.isdigit(): the decimal digits and the other Unicode digits
DigitChars == DecimalChars \cup {"²"}
\* str.strip() with no argument removes white space
SpaceChars == {" "}

\* re.sub(r"[^A-Za-z0-9]", "_", string)
sanitize(string) ==
    [n \in 1..Len(string) |->
        IF string[n] \in UpperChars \cup LowerChars \cup DecimalChars
        THEN string[n] ELSE "_"]

\* str.lower()
lower(v) ==
    [n \in 1..Len(v) |->
        IF v[n] \in UpperChars THEN CharOrder[Ord(v[n]) + 27] ELSE v[n]]

RECURSIVE lstrip(_)
lstrip(v) ==
    IF v # << >> /\ Head(v) \in SpaceChars THEN lstrip(Tail(v)) ELSE v

RECURSIVE rstrip(_)
rstrip(v) ==
    IF v # << >> /\ v[Len(v)] \in SpaceChars
    THEN rstrip(SubSeq(v, 1, Len(v) - 1)) ELSE v

\* str.strip()
strip(v) == rstrip(lstrip(v))

\* str.isdigit(): false on the empty string
isdigit(v) == v # << >> /\ \A n \in 1..Len(v) : v[n] \in DigitChars

\* int(v) raises ValueError unless every character is a decimal digit
IntRaises(v) == v = << >> \/ \E n \in 1..Len(v) : v[n] \notin DecimalChars

RECURSIVE int(_)
int(v) ==
    IF v = << >> THEN 0
    ELSE 10 * int(SubSeq(v, 1, Len(v) - 1)) + (Ord(v[Len(v)]) - 3)

\* Python string comparison a < b
RECURSIVE StrLess(_, _)
StrLess(a, b) ==
    IF b = << >> THEN FALSE
    ELSE IF a = << >> THEN TRUE
    ELSE IF Head(a) # Head(b) THEN Ord(Head(a)) < Ord(Head(b))
    ELSE StrLess(Tail(a), Tail(b))

RECURSIVE Insert(_, _)
Insert(x, s) ==
    IF s = << >> THEN << x >>
    ELSE IF StrLess(x, Head(s)) THEN << x >> \o s
    ELSE << Head(s) >> \o Insert(x, Tail(s))

\* list.sort() on a list of strings
RECURSIVE sort(_)
sort(s) == IF s = << >> THEN << >> ELSE Insert(s[Len(s)], sort(SubSeq(s, 1, Len(s) - 1)))


\* ------------------------------------------------------------------------
\* str2bool (for a string argument): raises ValueError on any other word
S_true == << "t", "r", "u", "e" >>
S_false == << "f", "a", "l", "s", "e" >>
S_1 == << "1" >>
S_0 == << "0" >>
S_yes == << "y", "e", "s" >>
S_no == << "n", "o" >>

str2boolTrue(v) == lower(v) \in {S_true, S_1, S_yes}

str2boolFalse(v) == lower(v) \in {S_false, S_0, S_no}

str2boolRaises(v) == ~str2boolTrue(v) /\ ~str2boolFalse(v)

\* ------------------------------------------------------------------------
\* The inventory: a dict from key to value.  A group is
\* {"hosts": [...], "children": [...]}; "_meta" holds {"hostvars": {...}}.
S__meta == << "_", "m", "e", "t", "a" >>
S_all == << "a", "l", "l" >>
S_ungrouped == << "u", "n", "g", "r", "o", "u", "p", "e", "d" >>
S_ansible_host == << "a", "n", "s", "i", "b", "l", "e", "_", "h", "o", "s", "t" >>
S_datacenter == << "d", "a", "t", "a", "c", "e", "n", "t", "e", "r" >>

EMPTY_GROUP == [hosts |-> << >>, children |-> << >>]

EmptyDict == [x \in {} |-> x]

EMPTY_INVENTORY ==
    (S__meta :> [hostvars |-> EmptyDict])
    @@ (S_all :> [hosts |-> << >>, children |-> << S_ungrouped >>])
    @@ (S_ungrouped :> EMPTY_GROUP)

\* dict[key] = value
DictSet(d, key, value) == (key :> value) @@ d

\* Python values of a hostvars entry
PyInt(n) == [t |-> "int", i |-> n]
PyBool(x) == [t |-> "bool", b |-> x]
PyStr(x) == [t |-> "str", s |-> x]

\* ------------------------------------------------------------------------
\* get_node_vars.  A node is [Node, Datacenter, TaggedAddresses, MetaNone,
\* Meta]; Meta lists the (key, value) items of the dict in its order and
\* MetaNone says that the catalog sent "Meta": null.
MetaItems(node) == IF node.MetaNone THEN << >> ELSE node.Meta

\* one metadata item, as the loop body of get_node_vars maps it
NodeVarOf(v) ==
    LET w == strip(v)
    IN  IF isdigit(w) THEN PyInt(int(w))
        ELSE IF lower(w) = S_true THEN PyBool(TRUE)
        ELSE IF lower(w) = S_false THEN PyBool(FALSE)
        ELSE PyStr(w)

RECURSIVE MetaVars(_, _)
MetaVars(items, node_vars) ==
    IF items = << >> THEN node_vars
    ELSE LET k == Head(items)[1]
             v == Head(items)[2]
         IN  IF v = << >> THEN MetaVars(Tail(items), node_vars)
             ELSE MetaVars(Tail(items), DictSet(node_vars, k, NodeVarOf(v)))

\* the exception get_node_vars ends with, "" when it returns
get_node_vars_raises(node, tagged_address) ==
    IF tagged_address \notin DOMAIN node.TaggedAddresses THEN "KeyError"
    ELSE IF \E n \in 1..Len(MetaItems(node)) :
                LET w == strip(MetaItems(node)[n][2])
                IN  MetaItems(node)[n][2] # << >> /\ isdigit(w) /\ IntRaises(w)
         THEN "ValueError"
         ELSE ""

get_node_vars(node, tagged_address) ==
    MetaVars(MetaItems(node),
             (S_ansible_host :> PyStr(node.TaggedAddresses[tagged_address]))
             @@ (S_datacenter :> PyStr(node.Datacenter)))

\* ------------------------------------------------------------------------
\* add_to_group: KeyError when the sanitized name is a key that holds no
\* "hosts" list
add_to_group_raises(inv, group) ==
    /\ sanitize(group) \in DOMAIN inv
    /\ "hosts" \notin DOMAIN inv[sanitize(group)]

add_to_group(inv, group, host) ==
    LET g == sanitize(group)
        inv1 == IF g \in DOMAIN inv THEN inv ELSE (g :> EMPTY_GROUP) @@ inv
    IN  [inv1 EXCEPT ![g].hosts = Append(@, host)]

\* ------------------------------------------------------------------------
\* One metadata item in build_full_inventory: whether it is skipped, and
\* the group name otherwise.  A string that str2bool refuses keeps its
\* original (unstripped) value.
MetaSkipped(value) == value = << >> \/ str2boolFalse(strip(value))

MetaGroup(key, value) ==
    IF str2boolTrue(strip(value)) THEN key ELSE key \o << "_" >> \o value

\* the loop over data["Tags"] of one service: [raised, inv]
RECURSIVE TagsLoop(_, _, _, _)
TagsLoop(inv, service, tags, host) ==
    IF tags = << >> THEN [raised |-> "", inv |-> inv]
    ELSE LET name == service \o << "_" >> \o Head(tags)
         IN  IF add_to_group_raises(inv, name)
             THEN [raised |-> "KeyError", inv |-> inv]
             ELSE LET inv1 == add_to_group(inv, name, host)
                  IN  IF "children" \notin DOMAIN inv1[service]
                      THEN [raised |-> "KeyError", inv |-> inv1]
                      ELSE IF \E n \in 1..Len(inv1[service].children) :
                                   inv1[service].children[n] = name
                           THEN TagsLoop(inv1, service, Tail(tags), host)
                           ELSE TagsLoop(
                                   [inv1 EXCEPT ![service].children = Append(@, name)],
                                   service, Tail(tags), host)

\* one item of services.items(): [raised, inv]
ServiceItem(inv, name, tags, host) ==
    LET service == sanitize(name)
    IN  IF add_to_group_raises(inv, service)
        THEN [raised |-> "KeyError", inv |-> inv]
        ELSE TagsLoop(add_to_group(inv, service, host), service, tags, host)

\* the keys of the inventory that are groups for all.children, as a list
\* (the order of the dict's keys does not survive the sort)
RECURSIVE SetToSeq(_)
SetToSeq(S) ==
    IF S = {} THEN << >>
    ELSE LET x == CHOOSE y \in S : \A z \in S : z = y \/ StrLess(y, z)
         IN  << x >> \o SetToSeq(S \ {x})

all_groups(inv) == SetToSeq(DOMAIN inv \ {S__meta, S_all, S_ungrouped})

FinishInventory(inv) ==
    [inv EXCEPT ![S_all].children = sort(@ \o all_groups(inv))]

\* ------------------------------------------------------------------------
\* Inputs: the catalog's answers and the process environment.
MaxNodes == 2

S_dc1 == << "d", "c", "1" >>
S_dc_2 == << "d", "c", "-", "2" >>
S_cluster == << "c", "l", "u", "s", "t", "e", "r" >>
S_pseudo_bool == << "p", "s", "e", "u", "d", "o", "_", "b", "o", "o", "l" >>
S_server_type == << "s", "e", "r", "v", "e", "r", "_", "t", "y", "p", "e" >>
S_segment == << "s", "e", "g", "m", "e", "n", "t" >>
S_flag == << "f", "l", "a", "g" >>
S_note == << "n", "o", "t", "e" >>
S_94 == << "9", "4" >>
S_True_padded == << " ", "T", "r", "u", "e", " " >>
S_web_server == << "w", "e", "b", "-", "s", "e", "r", "v", "e", "r" >>
S_No == << "N", "o" >>
S_blank == << " " >>
S_sup2 == << "²" >>
S_one == << "o", "n", "e" >>
S_a == << "a" >>
S_aa == << "a", "a" >>
S_bb == << "b", "b" >>
S_d_d == << "d", "-", "d" >>
S_a_b == << "a", "-", "b" >>

Addresses(n) ==
    ("lan" :> << "1", "0", n >>) @@ ("wan" :> << "2", "0", n >>)

LanOnly(n) == ("lan" :> << "1", "0", n >>)

NodeRec(id, dc, addresses, meta_none, meta) ==
    [Node |-> id, Datacenter |-> dc, TaggedAddresses |-> addresses,
     MetaNone |-> meta_none, Meta |-> meta]

\* the nodes the catalog may list
NodePool ==
    { NodeRec("node1", S_dc1, Addresses("1"), FALSE,
              << << S_segment, << >> >>, << S_cluster, S_94 >> >>),
      NodeRec("node2", S_dc1, Addresses("2"), FALSE,
              << << S_pseudo_bool, S_True_padded >> >>),
      NodeRec("node3", S_dc_2, LanOnly("3"), FALSE,
              << << S_pseudo_bool, S_false >>, << S_server_type, S_web_server >> >>),
      NodeRec("node2", S_all, Addresses("5"), TRUE, << >>),
      NodeRec("node3", S_dc1, Addresses("6"), FALSE,
              << << S_datacenter, S_one >>, << S_flag, S_yes >> >>),
      NodeRec("node2", S_dc1, Addresses("7"), FALSE,
              << << S__meta, S_true >> >>),
      NodeRec("node3", S_dc1, Addresses("8"), FALSE,
              << << S_cluster, S_sup2 >> >>),
      NodeRec("node1", S_ungrouped, Addresses("9"), FALSE,
              << << S_cluster, S_1 >>, << S_flag, S_0 >>, << S_pseudo_bool, S_No >>,
                 << S_note, S_blank >> >>) }

SeqsUpTo(S, n) == UNION {[1..m -> S] : m \in 0..n}

NodeLists == SeqsUpTo(NodePool, MaxNodes)

\* the "Services" a node detail may carry: the items of the dict, in order
ServicesPool ==
    { << >>,
      << << S_a, << S_aa >> >> >>,
      << << S_d_d, << S_aa, S_a_b >> >> >>,
      << << S_a, << S_aa, S_bb >> >>, << S_all, << S_aa >> >> >> }

CONSUL_EXPECTED_TAGGED_ADDRESS == {"wan", "wan_ipv4", "lan", "lan_ipv4"}

\* os.environ and the command line of one run.  host is args.host ("" under
\* --list), tagged_address is what line 304 computes, node_meta is the
\* text of CONSUL_NODE_META and node_meta_types the content of
\* CONSUL_NODE_META_TYPES, a variable no line of consul_awx.py reads.
Environments ==
    [host : {"", "node1"},
     tagged_address : {"lan", "wan", "public"},
     node_meta : {"unset", "{\"foo\": \"bar\"}", "{\"foo\": 1}", "[\"foo\"]", "not a dict"},
     node_meta_types : {{}, {<< S_cluster, "str" >>}}]

\* json.loads on the texts above: what kind of value, or a decode error
JsonKind(text) ==
    CASE text = "{\"foo\": \"bar\"}" -> "dict of str"
      [] text = "{\"foo\": 1}" -> "dict"
      [] text = "[\"foo\"]" -> "list"
      [] OTHER -> "JSONDecodeError"

\* get_node_meta without the assertion on the values of the dict
get_node_meta_raises_unchecked(text) ==
    IF text = "unset" THEN ""
    ELSE IF JsonKind(text) = "JSONDecodeError" THEN "TypeError"
    ELSE ""

\* get_node_meta with no [consul_node_meta] section in the file: the
\* exception it ends with, "" when it returns.  A decode error is re-raised
\* as JSONDecodeError(msg), a call that lacks two arguments.
get_node_meta_raises(text) ==
    IF text = "unset" THEN ""
    ELSE IF JsonKind(text) = "JSONDecodeError" THEN "TypeError"
    ELSE IF JsonKind(text) # "dict of str" THEN "Exception"
    ELSE ""

VARIABLES
    environ,      \* the environment and arguments of the run
    pc,           \* where main is
    node_meta,    \* the filter get_node_meta returned (its text)
    nodes,        \* the list get_nodes returned
    i,            \* the node the loop of build_full_inventory is at
    j,            \* the metadata item it is at
    services,     \* the services of the node, as get_node_services returned
    k,            \* the service item it is at
    inventory,    \* self.inventory
    calls,        \* the Catalog Client calls issued so far
    raised,       \* the exception that ended the run, "" if none
    exit_code,    \* -1 while running
    printed       \* what line 322 printed: "", "inventory" or "hostvars"

vars == << environ, pc, node_meta, nodes, i, j, services, k, inventory, calls,
           raised, exit_code, printed >>

build == << nodes, i, j, services, k, inventory >>

Init ==
    /\ environ \in Environments
    /\ pc = "main"
    /\ node_meta = "unset"
    /\ nodes = << >>
    /\ i = 0
    /\ j = 0
    /\ services = << >>
    /\ k = 0
    /\ inventory = EMPTY_INVENTORY
    /\ calls = << >>
    /\ raised = ""
    /\ exit_code = -1
    /\ printed = ""

\* one Catalog Client call: catalog.nodes or catalog.node, and whether the
\* transport answered
Call(op, node, ok) == [op |-> op, node |-> node, ok |-> ok]

\* an except clause that logs and does not exit: main goes on to line 322
Raise_and_go_on(exception) ==
    /\ pc' = "print"
    /\ raised' = exception
    /\ exit_code' = exit_code
    /\ printed' = printed

\* an exception leaves main: ConnectionError is caught (lines 317-320),
\* anything else is a traceback; the exit code is 1 either way
Raise(exception) ==
    /\ pc' = "exit"
    /\ raised' = exception
    /\ exit_code' = 1
    /\ printed' = printed

\* lines 304-308
main_tagged_address ==
    /\ pc = "main"
    /\ IF environ.tagged_address \notin CONSUL_EXPECTED_TAGGED_ADDRESS
       THEN /\ pc' = "exit"
            /\ raised' = "SystemExit"
            /\ exit_code' = 1
       ELSE /\ pc' = IF environ.host # "" THEN "host" ELSE "get_node_meta"
            /\ UNCHANGED << raised, exit_code >>
    /\ UNCHANGED << environ, node_meta, build, calls, printed >>

\* lines 311-312 and 322: --host
main_host ==
    /\ pc = "host"
    /\ \/ /\ Raise("ConnectionError")
          /\ calls' = Append(calls, Call("node", environ.host, FALSE))
       \/ /\ Raise("TypeError")     \* no such node: the detail is None
          /\ calls' = Append(calls, Call("node", environ.host, TRUE))
       \/ \E node \in NodePool :
             /\ calls' = Append(calls, Call("node", environ.host, TRUE))
             /\ node.Node = environ.host
             /\ IF get_node_vars_raises(node, environ.tagged_address) # ""
                THEN Raise(get_node_vars_raises(node, environ.tagged_address))
                ELSE /\ pc' = "exit"
                     /\ raised' = ""
                     /\ exit_code' = 0
                     /\ printed' = "hostvars"
    /\ UNCHANGED << environ, node_meta, build >>

\* line 314
main_get_node_meta ==
    /\ pc = "get_node_meta"
    /\ IF get_node_meta_raises(environ.node_meta) # ""
       THEN /\ Raise(get_node_meta_raises(environ.node_meta))
            /\ UNCHANGED node_meta
       ELSE /\ node_meta' = environ.node_meta
            /\ pc' = "get_nodes"
            /\ UNCHANGED << raised, exit_code, printed >>
    /\ UNCHANGED << environ, build, calls >>

\* where the loop over the nodes goes after node n is done
NextNode(list, n) == IF n < Len(list) THEN "node" ELSE "all_groups"

\* line 60: self.get_nodes(node_meta=node_meta)
get_nodes ==
    /\ pc = "get_nodes"
    /\ \/ /\ Raise("ConnectionError")
          /\ calls' = Append(calls, Call("nodes", "", FALSE))
          /\ UNCHANGED << nodes, i >>
       \/ \E list \in NodeLists :
             /\ calls' = Append(calls, Call("nodes", "", TRUE))
             /\ nodes' = list
             /\ i' = IF list = << >> THEN 0 ELSE 1
             /\ pc' = NextNode(list, 0)
             /\ UNCHANGED << raised, exit_code, printed >>
    /\ UNCHANGED << environ, node_meta, j, services, k, inventory >>

\* lines 61-65: the hostvars of the node and its datacenter group
build_node ==
    /\ pc = "node"
    /\ LET node == nodes[i]
           exception == get_node_vars_raises(node, environ.tagged_address)
       IN  IF exception # ""
           THEN /\ Raise(exception)
                /\ UNCHANGED << inventory, j >>
           ELSE LET inv1 == [inventory EXCEPT ![S__meta].hostvars =
                                DictSet(@, node.Node,
                                        get_node_vars(node, environ.tagged_address))]
                IN  IF add_to_group_raises(inv1, node.Datacenter)
                    THEN /\ Raise("KeyError")
                         /\ inventory' = inv1
                         /\ UNCHANGED j
                    ELSE /\ inventory' = add_to_group(inv1, node.Datacenter, node.Node)
                         /\ j' = 1
                         /\ pc' = IF MetaItems(node) = << >> THEN "get_node_services" ELSE "meta"
                         /\ UNCHANGED << raised, exit_code, printed >>
    /\ UNCHANGED << environ, node_meta, nodes, i, services, k, calls >>

\* lines 66-86: one item of meta.items()
build_meta_item ==
    /\ pc = "meta"
    /\ LET node == nodes[i]
           key == MetaItems(node)[j][1]
           value == MetaItems(node)[j][2]
           more == j < Len(MetaItems(node))
       IN  IF ~MetaSkipped(value) /\ add_to_group_raises(inventory, MetaGroup(key, value))
           THEN /\ Raise("KeyError")
                /\ UNCHANGED << inventory, j >>
           ELSE /\ inventory' = IF MetaSkipped(value) THEN inventory
                                ELSE add_to_group(inventory, MetaGroup(key, value), node.Node)
                /\ j' = j + 1
                /\ pc' = IF more THEN "meta" ELSE "get_node_services"
                /\ UNCHANGED << raised, exit_code, printed >>
    /\ UNCHANGED << environ, node_meta, nodes, i, services, k, calls >>

\* get_node_services answering from memory for a node it has fetched
get_node_services_cached ==
    /\ pc = "get_node_services"
    /\ \E answer \in ServicesPool :
          /\ calls' = IF \E n \in 1..Len(calls) :
                             calls[n].op = "node" /\ calls[n].node = nodes[i].Node
                       THEN calls
                       ELSE Append(calls, Call("node", nodes[i].Node, TRUE))
          /\ services' = answer
          /\ k' = 1
          /\ IF answer = << >>
             THEN /\ pc' = IF i < Len(nodes) THEN "node" ELSE "all_groups"
                  /\ i' = IF i < Len(nodes) THEN i + 1 ELSE i
             ELSE /\ pc' = "service"
                  /\ UNCHANGED i
          /\ UNCHANGED << raised, exit_code, printed >>
    /\ UNCHANGED << environ, node_meta, nodes, j, inventory >>

\* line 89: self.get_node_services(node["Node"])
get_node_services ==
    /\ pc = "get_node_services"
    /\ \/ /\ Raise("ConnectionError")
          /\ calls' = Append(calls, Call("node", nodes[i].Node, FALSE))
          /\ UNCHANGED << services, k, i >>
       \/ /\ Raise("TypeError")     \* the node is gone: the detail is None
          /\ calls' = Append(calls, Call("node", nodes[i].Node, TRUE))
          /\ UNCHANGED << services, k, i >>
       \/ \E answer \in ServicesPool :
             /\ calls' = Append(calls, Call("node", nodes[i].Node, TRUE))
             /\ services' = answer
             /\ k' = 1
             /\ IF answer = << >>
                THEN /\ pc' = NextNode(nodes, i)
                     /\ i' = IF i < Len(nodes) THEN i + 1 ELSE i
                ELSE /\ pc' = "service"
                     /\ UNCHANGED i
             /\ UNCHANGED << raised, exit_code, printed >>
    /\ UNCHANGED << environ, node_meta, nodes, j, inventory >>

\* lines 90-97: one item of services.items()
build_service_item ==
    /\ pc = "service"
    /\ LET r == ServiceItem(inventory, services[k][1], services[k][2], nodes[i].Node)
       IN  /\ inventory' = r.inv
           /\ IF r.raised # ""
              THEN /\ Raise(r.raised)
                   /\ UNCHANGED << k, i >>
              ELSE /\ k' = k + 1
                   /\ IF k < Len(services)
                      THEN /\ pc' = "service"
                           /\ UNCHANGED i
                      ELSE /\ pc' = NextNode(nodes, i)
                           /\ i' = IF i < Len(nodes) THEN i + 1 ELSE i
                   /\ UNCHANGED << raised, exit_code, printed >>
    /\ UNCHANGED << environ, node_meta, nodes, j, services, calls >>

\* lines 99-104, and line 316
build_all_groups ==
    /\ pc = "all_groups"
    /\ inventory' = FinishInventory(inventory)
    /\ pc' = "print"
    /\ UNCHANGED << environ, node_meta, nodes, i, j, services, k, calls,
                    raised, exit_code, printed >>

\* line 322
main_print ==
    /\ pc = "print"
    /\ printed' = "inventory"
    /\ exit_code' = 0
    /\ pc' = "exit"
    /\ UNCHANGED << environ, node_meta, build, calls, raised >>

Next ==
    \/ main_tagged_address
    \/ main_host
    \/ main_get_node_meta
    \/ get_nodes
    \/ build_node
    \/ build_meta_item
    \/ get_node_services
    \/ build_service_item
    \/ build_all_groups
    \/ main_print

Spec == Init /\ [][Next]_vars

\* ------------------------------------------------------------------------
\* What the claims speak of.
IsGroup(inv, g) == g \in DOMAIN inv /\ "hosts" \in DOMAIN inv[g]

HostsOf(inv, g) == IF IsGroup(inv, g) THEN inv[g].hosts ELSE << >>

InSeq(x, s) == \E n \in 1..Len(s) : s[n] = x

Count(x, s) == Cardinality({n \in 1..Len(s) : s[n] = x})

\* the step of build_full_inventory that handles metadata item j of node i
AtMetaItem == pc = "meta"
MetaKey == MetaItems(nodes[i])[j][1]
MetaValue == MetaItems(nodes[i])[j][2]
BoolShaped(value) == lower(strip(value)) \in {S_true, S_false}

\* C1: in build_full_inventory, a metadata value that is 'true' or 'false'
\* (stripped, whatever the case) is handled so: 'false' adds the node to no
\* group and creates none; 'true' adds the node to the group sanitize(key)
\* and leaves the group key_true alone.
C1_BooleanMetaGroups ==
    [][ (AtMetaItem /\ BoolShaped(MetaValue)) =>
          IF lower(strip(MetaValue)) = S_false
          THEN inventory' = inventory
          ELSE LET g == sanitize(MetaKey)
                   key_true == sanitize(MetaKey \o << "_" >> \o S_true)
               IN  /\ IsGroup(inventory', g)
                   /\ inventory'[g].hosts = Append(HostsOf(inventory, g), nodes[i].Node)
                   /\ HostsOf(inventory', key_true) = HostsOf(inventory, key_true)
                   /\ (key_true \in DOMAIN inventory') = (key_true \in DOMAIN inventory)
      ]_vars

\* C2: in build_full_inventory, a non-empty metadata value that is not
\* 'true' or 'false' (digit-only values and words such as yes and no
\* included) adds the node to the group sanitize(key_value), and to no
\* group named after the key alone.
C2_OtherMetaGroups ==
    [][ (AtMetaItem /\ MetaValue # << >> /\ ~BoolShaped(MetaValue)) =>
          LET g == sanitize(MetaKey \o << "_" >> \o MetaValue)
              alone == sanitize(MetaKey)
          IN  /\ IsGroup(inventory', g)
              /\ inventory'[g].hosts = Append(HostsOf(inventory, g), nodes[i].Node)
              /\ HostsOf(inventory', alone) = HostsOf(inventory, alone)
      ]_vars

\* the step of build_full_inventory that stores the hostvars of node i
AtNode == pc = "node"
HasAddress(node) == environ.tagged_address \in DOMAIN node.TaggedAddresses
IsDecimal(v) == v # << >> /\ \A n \in 1..Len(v) : v[n] \in DecimalChars

\* the value the stated precedence gives a metadata value
Coerced(v) ==
    IF IsDecimal(strip(v)) THEN PyInt(int(strip(v)))
    ELSE IF lower(strip(v)) = S_true THEN PyBool(TRUE)
    ELSE IF lower(strip(v)) = S_false THEN PyBool(FALSE)
    ELSE PyStr(strip(v))

HostvarsOf(inv, id) == inv[S__meta].hostvars[id]

\* C3: get_node_vars maps every non-empty metadata value, stripped, to the
\* integer it denotes if it is digit-only, else to the boolean if it is
\* true/false in any case, else keeps the string; and the result carries
\* ansible_host, the node's address of the requested class, and datacenter,
\* the node's datacenter.
C3_NodeVarsCoercion ==
    [][ (AtNode /\ HasAddress(nodes[i])) =>
          /\ raised' = ""
          /\ nodes[i].Node \in DOMAIN inventory'[S__meta].hostvars
          /\ LET node_vars == HostvarsOf(inventory', nodes[i].Node)
                 items == MetaItems(nodes[i])
             IN  /\ \A n \in 1..Len(items) :
                       items[n][2] # << >> =>
                          /\ items[n][1] \in DOMAIN node_vars
                          /\ node_vars[items[n][1]] = Coerced(items[n][2])
                 /\ node_vars[S_ansible_host] =
                       PyStr(nodes[i].TaggedAddresses[environ.tagged_address])
                 /\ node_vars[S_datacenter] = PyStr(nodes[i].Datacenter)
      ]_vars

Built == pc = "print" \/ printed = "inventory"

\* C5: once build_full_inventory has returned, all.children is the sorted
\* list of 'ungrouped' and of every key but '_meta', 'all' and 'ungrouped',
\* each once; all.hosts and the ungrouped group are empty.
C5_AllChildren ==
    Built =>
       /\ inventory[S_all].children =
             SetToSeq((DOMAIN inventory \ {S__meta, S_all}) \cup {S_ungrouped})
       /\ inventory[S_all].hosts = << >>
       /\ inventory[S_ungrouped] = EMPTY_GROUP

\* C6: during and after build_full_inventory every key of the inventory
\* and every name in a children list is made of [A-Za-z0-9_] only.
C6_SanitizedNames ==
    \A g \in DOMAIN inventory :
       /\ sanitize(g) = g
       /\ IsGroup(inventory, g) =>
             \A n \in 1..Len(inventory[g].children) :
                sanitize(inventory[g].children[n]) = inventory[g].children[n]

\* every Catalog Client call so far was answered
AllOk == \A n \in 1..Len(calls) : calls[n].ok

\* C7: the inventory is printed only when the build went through every
\* node.  A node without the requested address class, or a Catalog Client
\* call that fails, at any position, ends the run with a non-zero exit
\* code and nothing printed, and no call follows the failed one.
C7_NoPartialInventory ==
    /\ printed = "inventory" =>
          /\ raised = "" /\ exit_code = 0 /\ AllOk
          /\ i = Len(nodes) /\ Len(calls) = Len(nodes) + 1
          /\ \A n \in 1..Len(nodes) : HasAddress(nodes[n])
    /\ (environ.host = "" /\ i > 0) =>
          /\ \A n \in 1..(i - 1) : HasAddress(nodes[n])
          /\ ~HasAddress(nodes[i]) =>
                pc = "node" \/ (pc = "exit" /\ raised = "KeyError")
    /\ \A n \in 1..Len(calls) :
          ~calls[n].ok => n = Len(calls) /\ pc = "exit" /\ raised = "ConnectionError"
    /\ raised # "" => pc = "exit" /\ exit_code = 1 /\ printed = ""

C7_Witness ==
    /\ pc = "exit" /\ exit_code = 1 /\ printed = ""
    /\ i = 2 /\ ~HasAddress(nodes[2]) /\ raised = "KeyError"
    /\ inventory # EMPTY_INVENTORY

InvalidTaggedAddress == environ.tagged_address \notin CONSUL_EXPECTED_TAGGED_ADDRESS

InvalidNodeMeta ==
    environ.node_meta # "unset" /\ JsonKind(environ.node_meta) # "dict of str"

\* C8 as stated: in every run of main an invalid tagged-address class or
\* an invalid metadata filter ends the process before any Catalog Client
\* call.
C8_ConfigErrorsBeforeCalls ==
    (InvalidTaggedAddress \/ InvalidNodeMeta) =>
       /\ calls = << >>
       /\ printed = ""
       /\ pc = "exit" => exit_code = 1

\* C8, amended: an invalid tagged-address class ends every run of main
\* before any Catalog Client call, and an invalid metadata filter ends
\* every --list run before any call; a --host run never loads the filter.
C8_ConfigErrorsBeforeCallsInList ==
    (InvalidTaggedAddress \/ (environ.host = "" /\ InvalidNodeMeta)) =>
       /\ calls = << >>
       /\ printed = ""
       /\ pc \in {"main", "get_node_meta", "exit"}
       /\ pc = "exit" => exit_code = 1

C8_Witness ==
    /\ pc = "exit" /\ exit_code = 1 /\ calls = << >>
    /\ environ.host = "" /\ InvalidNodeMeta /\ ~InvalidTaggedAddress
    /\ raised = "Exception"

\* the step of build_full_inventory that handles service item k of node i
AtService == pc = "service"

\* C9: for every service of a node, build_full_inventory adds the node to
\* the group sanitize(service) and, for each tag, to the group service_tag;
\* the children of the service group then hold the name of that tag group
\* exactly once, and every child names a group that exists.
C9_ServiceTagGroups ==
    [][ (AtService /\ pc' # "exit") =>
          LET service == sanitize(services[k][1])
              tags == services[k][2]
          IN  /\ IsGroup(inventory', service)
              /\ InSeq(nodes[i].Node, inventory'[service].hosts)
              /\ \A n \in 1..Len(tags) :
                    LET tag_group == sanitize(service \o << "_" >> \o tags[n])
                    IN  /\ IsGroup(inventory', tag_group)
                        /\ InSeq(nodes[i].Node, inventory'[tag_group].hosts)
                        /\ Count(tag_group, inventory'[service].children) = 1
              /\ \A n \in 1..Len(inventory'[service].children) :
                    IsGroup(inventory', inventory'[service].children[n])
      ]_vars

\* what a step of the loop may add to the hosts of a group: the node the
\* loop is at, any number of times
RECURSIVE OnlyHost(_, _)
OnlyHost(s, host) == s = << >> \/ (Head(s) = host /\ OnlyHost(Tail(s), host))

Extends(old, new, host) ==
    /\ Len(old) <= Len(new)
    /\ SubSeq(new, 1, Len(old)) = old
    /\ OnlyHost(SubSeq(new, Len(old) + 1, Len(new)), host)

C11_BlankMetaNoGroup ==
    [][ (AtMetaItem /\ strip(MetaValue) = << >>) =>
          /\ inventory' = inventory
          /\ raised' = ""
      ]_vars
====
